---- MODULE Spec2Model ----
(***************************************************************************)
(* Model of the authentication core of the task manager: the login state   *)
(* machine of login.py on top of the credential store of loads.py and      *)
(* saves.py, driven by the main menu loop of initial_menu.py.              *)
(*                                                                         *)
(* Strings are sequences of character codes (ASCII), so that str.lower,    *)
(* str.strip and the ':' test of verify_password are computed, not         *)
(* assumed.  Time is counted in minutes.  The accounts are those found on   *)
(* disk when the program starts (InitialStores).                           *)
(***************************************************************************)
EXTENDS Integers, Sequences, FiniteSets, TLC

VARIABLES users, users_file, users_env, attempts, security_log, clock, pc,
          username, now, user_attempt, aliased, result, call, wrong_checks,
          reg, lib, tasks_file

vars == <<users, users_file, users_env, attempts, security_log, clock, pc,
          username, now, user_attempt, aliased, result, call, wrong_checks,
          reg, lib, tasks_file>>

\* ------------------------------------------------------------------ bounds
\* The longest task list of the session user.
MaxTasks == 2

\* The last minute modelled.
MaxClock == 60
\* Cap of the per-user count of wrong passwords checked (history counter).
MaxWrongChecks == 6
\* Number of accounts registered in one run.
MaxUsers == 2

\* ------------------------------------------------------- program constants
MAX_ATTEMPTS == 5
BLOCK_MINUTES == 30

\* Python's None (JSON null).  Every place that reads such a value tests only
\* its truthiness, under which None and the empty string agree.
None == <<>>

\* ----------------------------------------------------------------- strings
Space == 32
Colon == 58
Equals == 61
Hash == 35

Range(s) == {s[i] : i \in 1..Len(s)}

\* str.lower() on one character: 'A'..'Z' move to 'a'..'z'.
LowerChar(c) == IF c >= 65 /\ c <= 90 THEN c + 32 ELSE c

\* str.lower()
Lower(s) == [i \in 1..Len(s) |-> LowerChar(s[i])]

\* str.strip(): whitespace removed from both ends.
RECURSIVE LStrip(_)
LStrip(s) == IF s # <<>> /\ Head(s) = Space THEN LStrip(Tail(s)) ELSE s

RECURSIVE RStrip(_)
RStrip(s) ==
    IF s # <<>> /\ s[Len(s)] = Space THEN RStrip(SubSeq(s, 1, Len(s) - 1)) ELSE s

Strip(s) == RStrip(LStrip(s))

\* The literal "_password".
PasswordSuffix == <<95, 112, 97, 115, 115, 119, 111, 114, 100>>

\* The literal "ADMIN_PASSWORD".
AdminKey == <<65, 68, 77, 73, 78, 95, 80, 65, 83, 83, 87, 79, 82, 68>>

\* ------------------------------------------------------------------ hashes
\* One hexadecimal digit as a character.
HexDigit(n) == IF n < 10 THEN 48 + n ELSE 87 + n

\* bytes.hex(): two hexadecimal digits per byte.
HexOf(bytes) ==
    [i \in 1..(2 * Len(bytes)) |->
        IF i % 2 = 1 THEN HexDigit(bytes[(i + 1) \div 2] \div 16)
                     ELSE HexDigit(bytes[i \div 2] % 16)]

\* hashlib.sha256(password.encode()).hexdigest().  The digest is modelled as
\* an injective encoding of its input (no collisions on the modelled domain).
Sha256Hex(password) == HexOf(<<1>> \o password)

\* hashlib.pbkdf2_hmac('sha256', password, salt, 100000).hex(), injective in
\* (password, salt) and disjoint from the unsalted digests.
Pbkdf2Hex(password, salt) == HexOf(<<2>> \o salt \o <<0>> \o password)

\* Index of the first ':' of s (0 when there is none).
RECURSIVE FirstColon(_, _)
FirstColon(s, i) ==
    IF i > Len(s) THEN 0
    ELSE IF s[i] = Colon THEN i
    ELSE FirstColon(s, i + 1)

\* Variant of verify_password that splits the stored value at its last ':'.
verify_password_rsplit(password, stored_hash) ==
    IF Colon \notin Range(stored_hash)
    THEN stored_hash = Sha256Hex(password)
    ELSE LET k == CHOOSE i \in 1..Len(stored_hash) :
                      /\ stored_hash[i] = Colon
                      /\ \A j \in (i + 1)..Len(stored_hash) : stored_hash[j] # Colon
         IN  SubSeq(stored_hash, k + 1, Len(stored_hash))
                 = Pbkdf2Hex(password, SubSeq(stored_hash, 1, k - 1))

\* verify_password(password, stored_hash), both strings: the body of the try
\* block, which raises nothing on strings.
verify_password(password, stored_hash) ==
    IF Colon \notin Range(stored_hash)
    THEN stored_hash = Sha256Hex(password)
    ELSE LET k == FirstColon(stored_hash, 1)
             salt == SubSeq(stored_hash, 1, k - 1)
             hash_hex == SubSeq(stored_hash, k + 1, Len(stored_hash))
         IN  hash_hex = Pbkdf2Hex(password, salt)

\* ------------------------------------------------------------------- dicts
\* d[k] = v on a dict
Put(d, k, v) == [x \in (DOMAIN d) \cup {k} |-> IF x = k THEN v ELSE d[x]]

\* dict.get(k, default)
Get(d, k, default) == IF k \in DOMAIN d THEN d[k] ELSE default

EmptyDict == [x \in {} |-> <<>>]

\* ------------------------------------------------------------ users.env
\* The text of users.env is a sequence of lines (no line when the file is
\* missing).  The dict read from it keeps insertion order: it is a sequence
\* of <<key, value>> pairs with distinct keys.

\* env_vars.get(k, default)
EnvGet(env_vars, k, default) ==
    IF \E i \in 1..Len(env_vars) : env_vars[i][1] = k
    THEN env_vars[CHOOSE i \in 1..Len(env_vars) : env_vars[i][1] = k][2]
    ELSE default

\* env_vars[k] = v: the value is replaced in place, a new key goes last.
EnvPut(env_vars, k, v) ==
    IF \E i \in 1..Len(env_vars) : env_vars[i][1] = k
    THEN [i \in 1..Len(env_vars) |->
             IF env_vars[i][1] = k THEN <<k, v>> ELSE env_vars[i]]
    ELSE Append(env_vars, <<k, v>>)

\* Index of the first '=' of s (0 when there is none).
RECURSIVE FirstEquals(_, _)
FirstEquals(s, i) ==
    IF i > Len(s) THEN 0
    ELSE IF s[i] = Equals THEN i
    ELSE FirstEquals(s, i + 1)

\* The body of the loop of _load_env_file for one line: a line that is not
\* blank, is no comment and holds '=' sets env_vars[key] = value, both
\* stripped, split at the first '='.
LoadEnvLine(env_vars, raw_line) ==
    LET line == Strip(raw_line)
        k == FirstEquals(line, 1)
    IN  IF line # <<>> /\ line[1] # Hash /\ k # 0
        THEN EnvPut(env_vars, Strip(SubSeq(line, 1, k - 1)),
                              Strip(SubSeq(line, k + 1, Len(line))))
        ELSE env_vars

\* The loop of _load_env_file over the lines read so far.
RECURSIVE LoadEnvLines(_, _)
LoadEnvLines(lines, n) ==
    IF n = 0 THEN <<>>
    ELSE LoadEnvLine(LoadEnvLines(lines, n - 1), lines[n])

\* load_users_env() on a users.env that can be read.
load_users_env(lines) == LoadEnvLines(lines, Len(lines))

\* Variant of get_user_password_hash that looks the name up as it is spelt.
get_user_password_hash_as_spelt(env, name) ==
    EnvGet(load_users_env(env), name \o PasswordSuffix, None)

\* get_user_password_hash(username): the value of "<lowercase name>_password"
\* in users.env, None when the key is missing.
get_user_password_hash(env, name) ==
    EnvGet(load_users_env(env), Lower(name) \o PasswordSuffix, None)

\* get_admin_password_hash()
get_admin_password_hash(env) == EnvGet(load_users_env(env), AdminKey, None)

\* A comment line of users.env (the text after '#' is left out).
CommentLine == <<Hash>>

\* "key=value"
EnvLine(pair) == pair[1] \o <<Equals>> \o pair[2]

NotAdminKey(pair) == pair[1] # AdminKey

\* The lines written by save_user_password for the dict env_content: two
\* comment lines and a blank one, the ADMIN_PASSWORD block when the key is
\* present, a comment line, then every other entry in dict order.
WriteEnvFile(env_content) ==
    LET user_pairs == SelectSeq(env_content, NotAdminKey)
    IN  <<CommentLine, CommentLine, <<>>>>
        \o (IF \E i \in 1..Len(env_content) : env_content[i][1] = AdminKey
            THEN <<CommentLine,
                   EnvLine(<<AdminKey, EnvGet(env_content, AdminKey, None)>>),
                   <<>>>>
            ELSE <<>>)
        \o <<CommentLine>>
        \o [i \in 1..Len(user_pairs) |-> EnvLine(user_pairs[i])]

\* save_user_password(username, password_hash): the new text of users.env.
save_user_password(env, name, password_hash) ==
    WriteEnvFile(EnvPut(load_users_env(env),
                        Lower(name) \o PasswordSuffix, password_hash))

\* save_attempts(attempts): the JSON object written to security.log
save_attempts(a) == a

\* load_attempts(): the JSON object read back from security.log
load_attempts(log) == log

\* --------------------------------------------------------------- timestamps
\* datetime.isoformat() of minute t: the text kept in blocked_until.
IsoFormat(t) == <<t>>

\* datetime.fromisoformat(text)
FromIsoFormat(text) == text[1]

\* ------------------------------------------------------------ login helpers
\* {"attempts": 0, "blocked_until": None}
FreshAttempt == [attempts |-> 0, blocked_until |-> None]

\* The key of users that equals the typed name case-insensitively, None when
\* there is none (login.py's for loop over users.keys()).
FindUser(us, typed) ==
    IF \E k \in DOMAIN us : Lower(k) = Lower(typed)
    THEN CHOOSE k \in DOMAIN us : Lower(k) = Lower(typed)
    ELSE None

\* Variant of IsBlocked with the comparison turned round (now > blocked_until).
IsBlockedReversed(rec, t) ==
    rec.blocked_until # None /\ t > FromIsoFormat(rec.blocked_until)

\* Variant of IsBlocked that still blocks at the minute blocked_until itself.
IsBlockedInclusive(rec, t) ==
    rec.blocked_until # None /\ t <= FromIsoFormat(rec.blocked_until)

\* "if user_attempt['blocked_until']: ... if now < blocked_until"
IsBlocked(rec, t) ==
    rec.blocked_until # None /\ t < FromIsoFormat(rec.blocked_until)

\* Variant of FailedAttempt that stamps only above MAX_ATTEMPTS.
FailedAttemptStrict(rec, t) ==
    LET n == rec.attempts + 1
    IN  IF n > MAX_ATTEMPTS
        THEN [attempts |-> n, blocked_until |-> IsoFormat(t + BLOCK_MINUTES)]
        ELSE [rec EXCEPT !.attempts = n]

\* The else branch of the password check: one more failed attempt, and the
\* lockout stamp when the count reaches MAX_ATTEMPTS.
FailedAttempt(rec, t) ==
    LET n == rec.attempts + 1
    IN  IF n >= MAX_ATTEMPTS
        THEN [attempts |-> n, blocked_until |-> IsoFormat(t + BLOCK_MINUTES)]
        ELSE [rec EXCEPT !.attempts = n]

\* "stored_password_hash and verify_password(password, stored_password_hash)"
PasswordOk(env, name, password) ==
    LET stored_password_hash == get_user_password_hash(env, name)
    IN  stored_password_hash # None
        /\ verify_password(password, stored_password_hash)

\* ------------------------------------------------------------------ inputs
\* "A", "a", "b", "B", "c" and the empty string.
NameA == <<65>>
NameALower == <<97>>
NameB == <<98>>
NameBUpper == <<66>>
NameC == <<99>>

\* What may be typed at a username prompt (before strip()).
TypedNames ==
    {NameA, NameALower, <<Space>> \o NameALower \o <<Space>>,
     NameB, NameBUpper, NameC, <<>>}

\* What may be typed at a password prompt: "x", " x", "y" and "".
PasswordX == <<120>>
PasswordY == <<121>>
TypedPasswords == {PasswordX, <<Space>> \o PasswordX, PasswordY, <<>>}

\* The minutes that may pass between two steps: half a lockout window, or a
\* whole one.
TickSteps == {BLOCK_MINUTES \div 2, BLOCK_MINUTES}

\* A value secrets.token_hex may return (hexadecimal text).
Salt == <<51, 99>>

\* What register() stores for a password: "<salt>:<salted digest>".
SaltedCredential(password) == Salt \o <<Colon>> \o Pbkdf2Hex(password, Salt)

\* The files a run may start from (users.json and users.env):
\*   no account at all;
\*   "A", registered with password "x";
\*   the administrator "b" of an earlier version, unsalted digest of "y";
\*   "b" whose credential is missing from users.env.
InitialStores ==
    { [users |-> EmptyDict, users_env |-> <<>>],
      [users |-> Put(EmptyDict, NameA, [admin |-> FALSE]),
       users_env |-> save_user_password(<<>>, NameA, SaltedCredential(PasswordX))],
      [users |-> Put(EmptyDict, NameB, [admin |-> TRUE]),
       users_env |-> <<EnvLine(<<NameB \o PasswordSuffix, Sha256Hex(PasswordY)>>)>>],
      [users |-> Put(EmptyDict, NameB, [admin |-> FALSE]),
       users_env |-> <<>>] }

\* ------------------------------------------------------- history variables
\* call describes the login call in progress or the last one that returned:
\*   exit       how it ended ("none" while it runs, "session" while the session
\*              menu is open), typed / user: the name typed and the key found;
\*   blocked    the record of user held a lockout still in force at the start;
\*   expired    the record of user held a lockout no longer in force;
\*   fresh      user had no record, in memory or in security.log;
\*   base       the attempts value the password loop started from;
\*   wrong      passwords rejected so far, checked: passwords verified so far;
\*   password   the last password verified (after strip());
\*   fail_clock the minute at which the last failure was recorded;
\*   pre_attempts, pre_log: attempts and security.log when login was called.
\* wrong_checks counts, per user, the wrong passwords checked since the last
\* successful login or expired lockout of that user.
NoCall ==
    [exit |-> "nocall", typed |-> <<>>, user |-> <<>>, blocked |-> FALSE,
     expired |-> FALSE, fresh |-> FALSE, base |-> 0, wrong |-> 0,
     checked |-> 0, password |-> <<>>, fail_clock |-> 0,
     pre_attempts |-> EmptyDict, pre_log |-> EmptyDict]

StartCall(typed, user) ==
    LET rec == Get(attempts, user, FreshAttempt)
        lockedNow == rec.blocked_until # <<>>
                     /\ clock < rec.blocked_until[1]
        lockedPast == rec.blocked_until # <<>>
                      /\ clock >= rec.blocked_until[1]
    IN  [NoCall EXCEPT
            !.exit = "none", !.typed = typed, !.user = user,
            !.blocked = (user # <<>> /\ lockedNow),
            !.expired = (user # <<>> /\ lockedPast),
            !.fresh = (user # <<>> /\ user \notin DOMAIN attempts
                                   /\ user \notin DOMAIN security_log),
            !.base = (IF user = <<>> \/ lockedPast THEN 0 ELSE rec.attempts),
            !.pre_attempts = attempts, !.pre_log = security_log]

\* reg describes the register call in progress or the last one that returned:
\*   exit       "none" while it runs, then "cancel" or "done";
\*   admin      the admin argument, name: the username accepted;
\*   refused    a typed username was refused, refused_name: the last such name;
\*   password   the password supplied (after strip()), value: what was passed
\*              to save_user_password;
\*   admin_pass the passphrase typed at the "Create admin" choice that led to
\*              the call or to the denial;
\*   pre_users, pre_file, pre_env: users, users.json and users.env when
\*              register was called.
NoReg ==
    [exit |-> "noreg", admin |-> FALSE, name |-> <<>>, refused |-> FALSE,
     refused_name |-> <<>>, password |-> <<>>, value |-> <<>>,
     admin_pass |-> <<>>,
     pre_users |-> EmptyDict, pre_file |-> EmptyDict, pre_env |-> <<>>]

\* lib holds the arguments and the outcome of a library call made on its own.
NoLib == [op |-> "none"]

\* -------------------------------------------------------------------- state
Init ==
    /\ \E store \in InitialStores :
          /\ users = store.users
          /\ users_file = store.users
          /\ users_env = store.users_env
          /\ wrong_checks = [u \in DOMAIN store.users |-> 0]
    /\ reg = NoReg
    /\ lib = NoLib
    /\ tasks_file = EmptyDict
    /\ attempts = EmptyDict
    /\ security_log = EmptyDict
    /\ clock = 0
    /\ pc = "main_menu"
    /\ username = None
    /\ now = 0
    /\ user_attempt = FreshAttempt
    /\ aliased = FALSE
    /\ result = FALSE
    /\ call = NoCall

Stores == <<users, users_file, users_env, tasks_file>>
Locals == <<username, now, user_attempt, aliased>>

\* ------------------------------------------------------------------- login
\* Variant of LoginUnknown that counts the attempt under the typed name.
LoginUnknownRecording(raw) ==
    LET typed == Strip(raw)
    IN  /\ pc = "main_menu"
        /\ FindUser(users, typed) = None
        /\ result' = FALSE
        /\ attempts' = Put(attempts, typed,
                           [Get(attempts, typed, FreshAttempt)
                               EXCEPT !.attempts = (@ + 1) % MAX_ATTEMPTS])
        /\ security_log' = save_attempts(attempts')
        /\ call' = [StartCall(typed, <<>>) EXCEPT !.exit = "unknown"]
        /\ UNCHANGED <<Stores, reg, lib, clock, pc, Locals, wrong_checks>>

\* login(), lines 79-93: the typed name matches no key of users.
LoginUnknown(raw) ==
    LET typed == Strip(raw)
    IN  /\ pc = "main_menu"
        /\ FindUser(users, typed) = None
        /\ result' = FALSE
        /\ call' = [StartCall(typed, <<>>) EXCEPT !.exit = "unknown"]
        /\ UNCHANGED <<Stores, reg, lib, attempts, security_log, clock, pc, Locals,
                       wrong_checks>>

\* Variant of LoginBlocked that restarts the lockout window at each call.
LoginBlockedExtending(raw) ==
    LET typed == Strip(raw)
        user_found == FindUser(users, typed)
    IN  /\ pc = "main_menu"
        /\ user_found # None
        /\ IsBlocked(Get(attempts, user_found, FreshAttempt), clock)
        /\ result' = FALSE
        /\ attempts' = [attempts EXCEPT ![user_found].blocked_until =
                                           IsoFormat(clock + BLOCK_MINUTES)]
        /\ security_log' = save_attempts(attempts')
        /\ call' = [StartCall(typed, user_found) EXCEPT !.exit = "blocked"]
        /\ UNCHANGED <<Stores, reg, lib, clock, pc, Locals, wrong_checks>>

\* login(), lines 79-108: the resolved user is still blocked.
LoginBlocked(raw) ==
    LET typed == Strip(raw)
        user_found == FindUser(users, typed)
    IN  /\ pc = "main_menu"
        /\ user_found # None
        /\ IsBlocked(Get(attempts, user_found, FreshAttempt), clock)
        /\ result' = FALSE
        /\ call' = [StartCall(typed, user_found) EXCEPT !.exit = "blocked"]
        /\ UNCHANGED <<Stores, reg, lib, attempts, security_log, clock, pc, Locals,
                       wrong_checks>>

\* login(), lines 79-112: the resolved user is not blocked (or the lockout
\* has expired and the local record is reset); the password loop is entered.
LoginBegin(raw) ==
    LET typed == Strip(raw)
        user_found == FindUser(users, typed)
        rec == Get(attempts, user_found, FreshAttempt)
    IN  /\ pc = "main_menu"
        /\ user_found # None
        /\ ~IsBlocked(rec, clock)
        /\ username' = user_found
        /\ now' = clock
        /\ IF rec.blocked_until # None
           THEN /\ user_attempt' = FreshAttempt
                /\ aliased' = FALSE
                /\ wrong_checks' = [wrong_checks EXCEPT ![user_found] = 0]
           ELSE /\ user_attempt' = rec
                /\ aliased' = (user_found \in DOMAIN attempts)
                /\ UNCHANGED wrong_checks
        /\ pc' = "password"
        /\ call' = StartCall(typed, user_found)
        /\ UNCHANGED <<Stores, reg, lib, attempts, security_log, clock, result>>

\* Variant of LoginCancel that leaves through the save of lines 152-153.
LoginCancelSaving ==
    /\ pc = "password"
    /\ pc' = "main_menu"
    /\ result' = FALSE
    /\ attempts' = Put(attempts, username, user_attempt)
    /\ security_log' = save_attempts(attempts')
    /\ call' = [call EXCEPT !.exit = "cancel"]
    /\ UNCHANGED <<Stores, reg, lib, clock, Locals, wrong_checks>>

\* login(), lines 113-119: password entry is cancelled.
LoginCancel ==
    /\ pc = "password"
    /\ pc' = "main_menu"
    /\ result' = FALSE
    /\ call' = [call EXCEPT !.exit = "cancel"]
    /\ UNCHANGED <<Stores, reg, lib, attempts, security_log, clock, Locals, wrong_checks>>

\* Variant of LoginSuccess that saves before the reset is stored in attempts.
LoginSuccessStaleSave(raw) ==
    LET password == Strip(raw)
    IN  /\ pc = "password"
        /\ PasswordOk(users_env, username, password)
        /\ user_attempt' = FreshAttempt
        /\ aliased' = TRUE
        /\ security_log' = save_attempts(attempts)
        /\ attempts' = Put(attempts, username, FreshAttempt)
        /\ pc' = IF users[username].admin THEN "admin_main_menu" ELSE "task_menu"
        /\ wrong_checks' = [wrong_checks EXCEPT ![username] = 0]
        /\ call' = [call EXCEPT !.exit = "session", !.password = password,
                                !.checked = @ + 1]
        /\ UNCHANGED <<Stores, reg, lib, clock, username, now, result>>

\* Variant of LoginSuccess that opens the task menu whatever the role.
LoginSuccessTaskMenu(raw) ==
    LET password == Strip(raw)
    IN  /\ pc = "password"
        /\ PasswordOk(users_env, username, password)
        /\ user_attempt' = FreshAttempt
        /\ aliased' = TRUE
        /\ attempts' = Put(attempts, username, FreshAttempt)
        /\ security_log' = save_attempts(attempts')
        /\ pc' = "task_menu"
        /\ wrong_checks' = [wrong_checks EXCEPT ![username] = 0]
        /\ call' = [call EXCEPT !.exit = "session", !.password = password,
                                !.checked = @ + 1]
        /\ UNCHANGED <<Stores, reg, lib, clock, username, now, result>>

\* login(), lines 121-135: the password verifies; the record is reset and
\* saved, then the session of the user's role is entered.
LoginSuccess(raw) ==
    LET password == Strip(raw)
    IN  /\ pc = "password"
        /\ PasswordOk(users_env, username, password)
        /\ user_attempt' = FreshAttempt
        /\ aliased' = TRUE
        /\ attempts' = Put(attempts, username, FreshAttempt)
        /\ security_log' = save_attempts(attempts')
        /\ pc' = IF users[username].admin THEN "admin_main_menu" ELSE "task_menu"
        /\ wrong_checks' = [wrong_checks EXCEPT ![username] = 0]
        /\ call' = [call EXCEPT !.exit = "session", !.password = password,
                                !.checked = @ + 1]
        /\ UNCHANGED <<Stores, reg, lib, clock, username, now, result>>

\* login(), line 136: the session menu is left and login returns True.
SessionExit ==
    /\ pc \in {"admin_main_menu", "task_menu"}
    /\ pc' = "main_menu"
    /\ result' = TRUE
    /\ call' = [call EXCEPT !.exit = "success"]
    /\ UNCHANGED <<Stores, reg, lib, attempts, security_log, clock, Locals, wrong_checks>>

\* Variant of LoginFailure that asks "Try again?" after every failure, the
\* one that reaches MAX_ATTEMPTS included.
LoginFailureNoBreak(raw) ==
    LET password == Strip(raw)
        rec == FailedAttempt(user_attempt, now)
    IN  /\ pc = "password"
        /\ ~PasswordOk(users_env, username, password)
        /\ wrong_checks[username] < MaxWrongChecks
        /\ user_attempt' = rec
        /\ wrong_checks' = [wrong_checks EXCEPT ![username] = @ + 1]
        /\ attempts' = IF aliased THEN Put(attempts, username, rec)
                                  ELSE attempts
        /\ pc' = "retry"
        /\ call' = [call EXCEPT !.password = password,
                      !.wrong = @ + 1, !.checked = @ + 1,
                      !.fail_clock = clock]
        /\ UNCHANGED <<security_log, result, aliased>>
        /\ UNCHANGED <<Stores, reg, lib, clock, username, now>>

\* login(), lines 121-126 and 137-155: the password does not verify (or no
\* credential is stored).  The record in hand is incremented; at MAX_ATTEMPTS
\* it is stamped, stored in attempts and saved, and login returns False;
\* below it the user is asked whether to try again.  While the record in
\* hand is the object stored in attempts (aliased), the increment shows in
\* attempts at once; security.log is written only at lines 152-153.
\* (wrong_checks is a history counter, capped at MaxWrongChecks.)
LoginFailure(raw) ==
    LET password == Strip(raw)
        rec == FailedAttempt(user_attempt, now)
    IN  /\ pc = "password"
        /\ ~PasswordOk(users_env, username, password)
        /\ wrong_checks[username] < MaxWrongChecks
        /\ user_attempt' = rec
        /\ wrong_checks' = [wrong_checks EXCEPT ![username] = @ + 1]
        /\ IF rec.attempts >= MAX_ATTEMPTS
           THEN /\ attempts' = Put(attempts, username, rec)
                /\ security_log' = save_attempts(attempts')
                /\ pc' = "main_menu"
                /\ result' = FALSE
                /\ aliased' = TRUE
                /\ call' = [call EXCEPT !.exit = "lockout",
                              !.password = password,
                              !.wrong = @ + 1, !.checked = @ + 1,
                              !.fail_clock = clock]
           ELSE /\ attempts' = IF aliased THEN Put(attempts, username, rec)
                                          ELSE attempts
                /\ pc' = "retry"
                /\ call' = [call EXCEPT !.password = password,
                              !.wrong = @ + 1, !.checked = @ + 1,
                              !.fail_clock = clock]
                /\ UNCHANGED <<security_log, result, aliased>>
        /\ UNCHANGED <<Stores, reg, lib, clock, username, now>>

\* login(), lines 148-155: the answer to "Try again? (y/n)".
RetryAnswer(again) ==
    /\ pc = "retry"
    /\ IF again
       THEN /\ pc' = "password"
            /\ UNCHANGED <<attempts, security_log, result, aliased, call>>
       ELSE /\ attempts' = Put(attempts, username, user_attempt)
            /\ security_log' = save_attempts(attempts')
            /\ pc' = "main_menu"
            /\ result' = FALSE
            /\ aliased' = TRUE
            /\ call' = [call EXCEPT !.exit = "declined"]
    /\ UNCHANGED <<Stores, reg, lib, clock, username, now, user_attempt, wrong_checks>>

\* ------------------------------------------------------------ environment
\* Time passes (at any prompt, and while a session menu is open).
Tick ==
    \E minutes \in TickSteps :
        /\ clock + minutes <= MaxClock
        /\ clock' = clock + minutes
        /\ UNCHANGED <<Stores, reg, lib, attempts, security_log, pc, Locals, result,
                       call, wrong_checks>>

\* Choice 0 of main_menu() followed by a new run of the program: the module
\* level load_users() and load_attempts() of initial_menu.py.
Restart ==
    /\ pc = "main_menu"
    /\ attempts' = load_attempts(security_log)
    /\ call' = NoCall
    /\ UNCHANGED <<Stores, reg, lib, security_log, clock, pc, Locals, result,
                   wrong_checks>>

Next ==
    \/ \E raw \in TypedNames : LoginUnknown(raw)
    \/ \E raw \in TypedNames : LoginBlocked(raw)
    \/ \E raw \in TypedNames : LoginBegin(raw)
    \/ LoginCancel
    \/ \E raw \in TypedPasswords : LoginSuccess(raw)
    \/ \E raw \in TypedPasswords : LoginFailure(raw)
    \/ \E again \in BOOLEAN : RetryAnswer(again)
    \/ SessionExit
    \/ Tick
    \/ Restart

Spec == Init /\ [][Next]_vars

\* The user answers every prompt in the end, and leaves every session menu.
PasswordAnswer ==
    \/ LoginCancel
    \/ \E raw \in TypedPasswords : LoginSuccess(raw)
    \/ \E raw \in TypedPasswords : LoginFailure(raw)

RetryStep == \E again \in BOOLEAN : RetryAnswer(again)

SpecFair ==
    /\ Init /\ [][Next]_vars
    /\ WF_vars(PasswordAnswer)
    /\ WF_vars(RetryStep)
    /\ WF_vars(SessionExit)

\* --------------------------------------------------------------- two users
\* The program is started with two registered users, "A" with password "x"
\* and "b" with password "y", and an empty security.log; the clock stands
\* still, so a lockout stays in force.
InitTwoUsers ==
    /\ users = Put(Put(EmptyDict, NameA, [admin |-> FALSE]),
                   NameB, [admin |-> FALSE])
    /\ users_file = users
    /\ users_env = save_user_password(
                       save_user_password(<<>>, NameA,
                                          SaltedCredential(PasswordX)),
                       NameB, SaltedCredential(PasswordY))
    /\ tasks_file = EmptyDict
    /\ wrong_checks = [u \in DOMAIN users |-> 0]
    /\ reg = NoReg
    /\ lib = NoLib
    /\ attempts = EmptyDict
    /\ security_log = EmptyDict
    /\ clock = 0
    /\ pc = "main_menu"
    /\ username = None
    /\ now = 0
    /\ user_attempt = FreshAttempt
    /\ aliased = FALSE
    /\ result = FALSE
    /\ call = NoCall

\* Login calls of the two users, and of the unknown name "c", one after the
\* other in one run of the program.
NextTwoUsers ==
    \/ \E raw \in {NameA, NameB, NameC} : LoginUnknown(raw)
    \/ \E raw \in {NameA, NameB, NameC} : LoginBlocked(raw)
    \/ \E raw \in {NameA, NameB, NameC} : LoginBegin(raw)
    \/ LoginCancel
    \/ \E raw \in {PasswordX, PasswordY} : LoginSuccess(raw)
    \/ \E raw \in {PasswordX, PasswordY} : LoginFailure(raw)
    \/ \E again \in BOOLEAN : RetryAnswer(again)
    \/ SessionExit

SpecTwoUsers == InitTwoUsers /\ [][NextTwoUsers]_vars

\* ================================================================ register
\* save_users(users): the JSON object written to users.json
save_users(us) == us

\* "#c" and "a_password=": names register accepts like any other.
NameHashC == <<Hash, 99>>
NameAKey == NameALower \o PasswordSuffix \o <<Equals>>

\* What may be typed at the username prompt of register (before strip()).
RegisterNames ==
    {NameA, NameALower, <<Space>> \o NameALower \o <<Space>>, NameB, <<>>,
     NameHashC, NameAKey}

\* The admin creation passphrase "s", and what may be typed for it.
AdminSecret == <<115>>
TypedPassphrases == {AdminSecret, <<Space>> \o AdminSecret, PasswordX, <<>>}

\* The files a run of registrations may start from: nothing at all, or a
\* users.env that holds only the ADMIN_PASSWORD digest.
RegisterStores ==
    { [users |-> EmptyDict, users_env |-> <<>>],
      [users |-> EmptyDict,
       users_env |-> WriteEnvFile(<< <<AdminKey, Sha256Hex(AdminSecret)>> >>)] }

InitRegister ==
    /\ \E store \in RegisterStores :
          /\ users = store.users
          /\ users_file = store.users
          /\ users_env = store.users_env
    /\ wrong_checks = EmptyDict
    /\ reg = NoReg
    /\ lib = NoLib
    /\ tasks_file = EmptyDict
    /\ attempts = EmptyDict
    /\ security_log = EmptyDict
    /\ clock = 0
    /\ pc = "main_menu"
    /\ username = None
    /\ now = 0
    /\ user_attempt = FreshAttempt
    /\ aliased = FALSE
    /\ result = FALSE
    /\ call = NoCall

LoginState == <<attempts, security_log, clock, Locals, call, wrong_checks, lib>>

\* register() is entered with the given admin argument, after admin_pass
\* was typed at the menu (nothing for choice 2).
EnterRegister(admin, admin_pass) ==
    /\ pc' = "register_username"
    /\ reg' = [NoReg EXCEPT !.exit = "none", !.admin = admin,
                            !.admin_pass = admin_pass,
                            !.pre_users = users, !.pre_file = users_file,
                            !.pre_env = users_env]

\* Variant of UsernameTaken that compares the names as they are spelt.
UsernameTakenAsSpelt(us, name) == name \in DOMAIN us

\* "username_lower in existing_users_lower" (register.py, lines 57-62)
UsernameTaken(us, name) == Lower(name) \in {Lower(k) : k \in DOMAIN us}

\* main_menu(), choice 2: register(users, admin=False) is called.
RegisterChoice ==
    /\ pc = "main_menu"
    /\ Cardinality(DOMAIN users) < MaxUsers
    /\ EnterRegister(FALSE, <<>>)
    /\ UNCHANGED <<Stores, LoginState, result>>

\* main_menu(), choice 3 (lines 120-147): the passphrase typed is hashed and
\* compared with the stored ADMIN_PASSWORD; register(users, admin=True) is
\* called on a match, access is denied otherwise.
CreateAdmin(admin_pass) ==
    LET entered_password_hash == Sha256Hex(admin_pass)
        stored_admin_hash == get_admin_password_hash(users_env)
    IN  /\ pc = "main_menu"
        /\ Cardinality(DOMAIN users) < MaxUsers
        /\ IF stored_admin_hash # None /\ entered_password_hash = stored_admin_hash
           THEN EnterRegister(TRUE, admin_pass)
           ELSE /\ reg' = [NoReg EXCEPT !.exit = "denied",
                                        !.admin_pass = admin_pass]
                /\ UNCHANGED pc
        /\ UNCHANGED <<Stores, LoginState, result>>

\* register(), lines 53-68: a typed username that is taken or empty is
\* refused and asked again; any other is kept as typed.
RegisterUsername(raw) ==
    LET name == Strip(raw)
    IN  /\ pc = "register_username"
        /\ IF UsernameTaken(users, name) \/ name = <<>>
           THEN /\ reg' = [reg EXCEPT !.refused = TRUE, !.refused_name = name]
                /\ UNCHANGED pc
           ELSE /\ reg' = [reg EXCEPT !.name = name]
                /\ pc' = "register_password"
        /\ UNCHANGED <<Stores, LoginState, result>>

\* Variant of RegisterCancel in which the metadata was stored before the
\* password prompt.
RegisterCancelAfterMetadata ==
    /\ pc = "register_password"
    /\ pc' = "main_menu"
    /\ result' = FALSE
    /\ users' = Put(users, reg.name, [admin |-> reg.admin])
    /\ users_file' = save_users(users')
    /\ reg' = [reg EXCEPT !.exit = "cancel"]
    /\ UNCHANGED <<users_env, tasks_file, LoginState>>

\* register(), lines 70-76: password entry is cancelled.
RegisterCancel ==
    /\ pc = "register_password"
    /\ pc' = "main_menu"
    /\ result' = FALSE
    /\ reg' = [reg EXCEPT !.exit = "cancel"]
    /\ UNCHANGED <<Stores, LoginState>>

\* register(), lines 78-98: the metadata is stored and saved, then the salted
\* credential of the stripped password is saved; register returns True.
RegisterPassword(raw) ==
    LET password == Strip(raw)
        value == Salt \o <<Colon>> \o Pbkdf2Hex(password, Salt)
    IN  /\ pc = "register_password"
        /\ users' = Put(users, reg.name, [admin |-> reg.admin])
        /\ users_file' = save_users(users')
        /\ users_env' = save_user_password(users_env, reg.name, value)
        /\ UNCHANGED tasks_file
        /\ pc' = "main_menu"
        /\ result' = TRUE
        /\ reg' = [reg EXCEPT !.exit = "done", !.password = password,
                              !.value = value]
        /\ UNCHANGED LoginState

NextRegister ==
    \/ RegisterChoice
    \/ \E admin_pass \in TypedPassphrases : CreateAdmin(admin_pass)
    \/ \E raw \in RegisterNames : RegisterUsername(raw)
    \/ RegisterCancel
    \/ \E raw \in TypedPasswords : RegisterPassword(raw)

SpecRegister == InitRegister /\ [][NextRegister]_vars

\* ------------------------------------------------------------ menu_inicial
\* "cesae123", the admin creation password written in menu_inicial.py
LegacyAdminPassword == <<99, 101, 115, 97, 101, 49, 50, 51>>

\* What may be typed at the admin creation prompt of menu_inicial.py.
LegacyPassphrases ==
    {LegacyAdminPassword, <<Space>> \o LegacyAdminPassword, AdminSecret, <<>>}

\* main_menu() of menu_inicial.py, choice 3 (lines 32-39): the passphrase
\* typed is stripped and compared with "cesae123"; register(users,
\* admin=True) is called on a match, access is denied otherwise.
CreateAdminLegacy(typed) ==
    LET admin_pass == Strip(typed)
    IN  /\ pc = "main_menu"
        /\ Cardinality(DOMAIN users) < MaxUsers
        /\ IF admin_pass = LegacyAdminPassword
           THEN EnterRegister(TRUE, admin_pass)
           ELSE /\ reg' = [NoReg EXCEPT !.exit = "denied",
                                        !.admin_pass = admin_pass]
                /\ UNCHANGED pc
        /\ UNCHANGED <<Stores, LoginState, result>>

\* The two menus of the repository, initial_menu.py and menu_inicial.py, run
\* one after the other on the same files: each starts from the users it loads
\* from users.json.
NextMenus ==
    \/ NextRegister
    \/ \E typed \in LegacyPassphrases : CreateAdminLegacy(typed)

SpecMenus == InitRegister /\ [][NextMenus]_vars

\* ================================================================= library
\* verify_password and the loaders of loads.py, each called on its own with
\* arguments and files in any condition.

\* The classes an exception is an instance of (IOError is OSError).
ExceptionBases(e) ==
    CASE e = "JSONDecodeError" -> {"JSONDecodeError", "ValueError"}
      [] e = "UnicodeDecodeError" -> {"UnicodeDecodeError", "ValueError"}
      [] e = "PermissionError" -> {"PermissionError", "OSError", "IOError"}
      [] e = "TypeError" -> {"TypeError"}
      [] OTHER -> {}

NoException == "no_exception"

\* except (classes): whether an exception e raised in the try block is caught.
Handled(e, classes) == ExceptionBases(e) \cap classes # {}

\* How a call ends: it returns a value, or an exception leaves it.
Returned(v) == [raised |-> NoException, value |-> v]
Raised(e) == [raised |-> e]

\* What the try block of verify_password raises: "':' not in stored_hash" is
\* a TypeError when stored_hash is None.
VerifyBodyRaises(stored_is_none) ==
    IF stored_is_none THEN "TypeError" ELSE NoException

\* except (ValueError, TypeError) of verify_password
VerifyCaught == {"ValueError", "TypeError"}

\* A call of verify_password(password, stored_hash), stored_hash a string or
\* None.
verify_password_call(password, stored_hash, stored_is_none) ==
    LET e == VerifyBodyRaises(stored_is_none)
    IN  IF e = NoException THEN Returned(verify_password(password, stored_hash))
        ELSE IF Handled(e, VerifyCaught) THEN Returned(FALSE)
        ELSE Raised(e)

\* The condition of a file: it does not exist, it exists but cannot be opened
\* (no permission, or a directory), its bytes are not UTF-8, or its text can
\* be read.
FileStatus == {"missing", "unreadable", "undecodable", "readable"}

\* What the try block of _load_json_file raises: open() fails, the text
\* cannot be decoded, or the text is not JSON.
JsonBodyRaises(status, json_ok) ==
    CASE status = "unreadable" -> "PermissionError"
      [] status = "undecodable" -> "UnicodeDecodeError"
      [] status = "readable" /\ ~json_ok -> "JSONDecodeError"
      [] OTHER -> NoException

\* except (json.JSONDecodeError, ValueError) of _load_json_file
JsonCaught == {"JSONDecodeError", "ValueError"}

\* _load_json_file(file_path, is_list): content is the value the text of the
\* file decodes to when it is JSON.
load_json_file(status, json_ok, content, default_value) ==
    IF status = "missing" THEN Returned(default_value)
    ELSE LET e == JsonBodyRaises(status, json_ok)
         IN  IF e = NoException THEN Returned(content)
             ELSE IF Handled(e, JsonCaught) THEN Returned(default_value)
             ELSE Raised(e)

\* What the try block of _load_env_file raises: a line that is not
\* "key=value" raises nothing, it is skipped.
EnvBodyRaises(status) ==
    CASE status = "unreadable" -> "PermissionError"
      [] status = "undecodable" -> "UnicodeDecodeError"
      [] OTHER -> NoException

\* except (OSError, IOError) of _load_env_file
EnvCaught == {"OSError", "IOError"}

\* _load_env_file(file_path): the dict is empty when open() fails.
load_env_file(status, lines) ==
    IF status = "missing" THEN Returned(<<>>)
    ELSE LET e == EnvBodyRaises(status)
         IN  IF e = NoException THEN Returned(load_users_env(lines))
             ELSE IF Handled(e, EnvCaught) THEN Returned(<<>>)
             ELSE Raised(e)

\* users_env.get(key) after load_users_env(), for the two readers of one key.
env_get_call(status, lines, key) ==
    LET loaded == load_env_file(status, lines)
    IN  IF loaded.raised = NoException
        THEN Returned(EnvGet(loaded.value, key, None))
        ELSE loaded

\* load_tasks(username): os.makedirs(tasks_dir, exist_ok=True), which raises
\* when the directory cannot be made, then _load_json_file(..., is_list=True).
load_tasks(makedirs_ok, status, json_ok, content) ==
    IF makedirs_ok THEN load_json_file(status, json_ok, content, <<>>)
    ELSE Raised("PermissionError")

\* Stored values verify_password may be given: nothing, ":", plain text, the
\* two digests of "x" and of the empty password, with and without salt, and
\* values with a second ':'.
StoredValues ==
    {<<>>, <<Colon>>, PasswordX, Sha256Hex(PasswordX), Sha256Hex(<<>>),
     Pbkdf2Hex(PasswordX, Salt), SaltedCredential(PasswordX),
     SaltedCredential(<<>>), Salt \o <<Colon>>,
     <<Colon>> \o Pbkdf2Hex(PasswordX, <<>>),
     SaltedCredential(PasswordX) \o <<Colon>>,
     Salt \o <<Colon>> \o Salt \o <<Colon>>
         \o Pbkdf2Hex(PasswordX, Salt \o <<Colon>> \o Salt)}

\* One task list a tasks file may hold.
TaskLists == {<<>>, <<[title |-> PasswordX]>>}

\* The arguments of one library call and the condition of the file it reads.
LibraryInputs ==
    {[op |-> "verify_input", password |-> p, stored |-> s, stored_is_none |-> FALSE] :
         p \in TypedPasswords \cup {<<>>}, s \in StoredValues}
    \cup {[op |-> "verify_input", password |-> p, stored |-> None,
           stored_is_none |-> TRUE] : p \in TypedPasswords \cup {<<>>}}
    \cup {[op |-> "load_input", status |-> st, json_ok |-> ok,
           makedirs_ok |-> mk, tasks |-> t, name |-> n] :
         st \in FileStatus, ok \in BOOLEAN, mk \in BOOLEAN, t \in TaskLists,
         n \in {NameA, NameB}}

\* The contents users.json, security.log and users.env may have.
LibraryStores ==
    { [users |-> EmptyDict, log |-> EmptyDict, users_env |-> <<>>],
      [users |-> Put(EmptyDict, NameA, [admin |-> FALSE]),
       log |-> Put(EmptyDict, NameA, FailedAttempt(FreshAttempt, 0)),
       users_env |-> save_user_password(<<>>, NameA, SaltedCredential(PasswordX))],
      [users |-> Put(EmptyDict, NameB, [admin |-> TRUE]),
       log |-> EmptyDict,
       users_env |-> WriteEnvFile(<< <<AdminKey, Sha256Hex(AdminSecret)>> >>)
                        \o <<NameBUpper>>] }

InitLibrary ==
    /\ \E store \in LibraryStores :
          /\ users = store.users
          /\ users_file = store.users
          /\ users_env = store.users_env
          /\ security_log = store.log
    /\ lib \in LibraryInputs
    /\ tasks_file = EmptyDict
    /\ wrong_checks = EmptyDict
    /\ reg = NoReg
    /\ attempts = EmptyDict
    /\ clock = 0
    /\ pc = "main_menu"
    /\ username = None
    /\ now = 0
    /\ user_attempt = FreshAttempt
    /\ aliased = FALSE
    /\ result = FALSE
    /\ call = NoCall

\* What a library call leaves alone: no loader writes a file of the stores.
LibraryFrame ==
    <<Stores, attempts, security_log, clock, pc, Locals, result, call,
      wrong_checks, reg>>

\* The record of a finished call.
Finished(name, outcome) ==
    IF outcome.raised = NoException
    THEN [op |-> name, input |-> lib, raised |-> NoException,
          value |-> outcome.value]
    ELSE [op |-> name, input |-> lib, raised |-> outcome.raised]

VerifyPassword ==
    /\ lib.op = "verify_input"
    /\ lib' = Finished("verify_password",
                       verify_password_call(lib.password, lib.stored,
                                            lib.stored_is_none))
    /\ UNCHANGED LibraryFrame

\* load_users(): _load_json_file(USERS_FILE)
LoadUsers ==
    /\ lib.op = "load_input"
    /\ lib' = Finished("load_users",
                       load_json_file(lib.status, lib.json_ok, users_file,
                                      EmptyDict))
    /\ UNCHANGED LibraryFrame

\* load_attempts(): _load_json_file(ATTEMPTS_FILE)
LoadAttempts ==
    /\ lib.op = "load_input"
    /\ lib' = Finished("load_attempts",
                       load_json_file(lib.status, lib.json_ok,
                                      load_attempts(security_log), EmptyDict))
    /\ UNCHANGED LibraryFrame

LoadTasks ==
    /\ lib.op = "load_input"
    /\ lib' = Finished("load_tasks",
                       load_tasks(lib.makedirs_ok, lib.status, lib.json_ok,
                                  lib.tasks))
    /\ UNCHANGED LibraryFrame

\* load_users_env(): _load_env_file(USERS_ENV_FILE)
LoadUsersEnv ==
    /\ lib.op = "load_input"
    /\ lib' = Finished("load_users_env", load_env_file(lib.status, users_env))
    /\ UNCHANGED LibraryFrame

\* get_user_password_hash(username) on a users.env in any condition
GetUserPasswordHash ==
    /\ lib.op = "load_input"
    /\ lib' = Finished("get_user_password_hash",
                       env_get_call(lib.status, users_env,
                                    Lower(lib.name) \o PasswordSuffix))
    /\ UNCHANGED LibraryFrame

\* get_admin_password_hash() on a users.env in any condition
GetAdminPasswordHash ==
    /\ lib.op = "load_input"
    /\ lib' = Finished("get_admin_password_hash",
                       env_get_call(lib.status, users_env, AdminKey))
    /\ UNCHANGED LibraryFrame

NextLibrary ==
    \/ VerifyPassword
    \/ LoadUsers
    \/ LoadAttempts
    \/ LoadTasks
    \/ LoadUsersEnv
    \/ GetUserPasswordHash
    \/ GetAdminPasswordHash

SpecLibrary == InitLibrary /\ [][NextLibrary]_vars

\* =================================================================== tasks
\* tasks_file maps a username to the list held by users/tasks/<name>_tasks.json
\* (no key while the file does not exist).

Dash == 45

\* "2025-01-05", "2025-02-10", "2025-03-20", and "soon"
Date1 == <<50, 48, 50, 53, 45, 48, 49, 45, 48, 53>>
Date2 == <<50, 48, 50, 53, 45, 48, 50, 45, 49, 48>>
Date3 == <<50, 48, 50, 53, 45, 48, 51, 45, 50, 48>>
Soon == <<115, 111, 111, 110>>

\* "1", "2", "3" and "9"
Priority1 == <<49>>
Priority2 == <<50>>
Priority3 == <<51>>
Priority9 == <<57>>

\* "t" and "c", a title and a category
TitleT == <<116>>
CategoryC == <<99>>

\* a <= b on Python strings: the order of the first character that differs,
\* a prefix coming first.
RECURSIVE StrLeq(_, _)
StrLeq(a, b) ==
    IF a = <<>> THEN TRUE
    ELSE IF b = <<>> THEN FALSE
    ELSE IF a[1] # b[1] THEN a[1] < b[1]
    ELSE StrLeq(Tail(a), Tail(b))

\* str.isdigit() on ASCII text
IsDigitStr(t) == t # <<>> /\ \A i \in 1..Len(t) : t[i] >= 48 /\ t[i] <= 57

\* int() of two digits
TwoDigits(t) == (t[1] - 48) * 10 + (t[2] - 48)

\* The test of add_task on a typed deadline (lines 50-58): ten characters
\* with '-' at [4] and [7], three parts when split at '-', a year of four
\* digits, a month 01..12 and a day 01..31.
DeadlineAccepted(deadline) ==
    /\ deadline # <<>>
    /\ Len(deadline) = 10 /\ deadline[5] = Dash /\ deadline[8] = Dash
    /\ Cardinality({i \in 1..Len(deadline) : deadline[i] = Dash}) = 2
    /\ IsDigitStr(SubSeq(deadline, 1, 4))
    /\ IsDigitStr(SubSeq(deadline, 6, 7))
    /\ TwoDigits(SubSeq(deadline, 6, 7)) >= 1
    /\ TwoDigits(SubSeq(deadline, 6, 7)) <= 12
    /\ IsDigitStr(SubSeq(deadline, 9, 10))
    /\ TwoDigits(SubSeq(deadline, 9, 10)) >= 1
    /\ TwoDigits(SubSeq(deadline, 9, 10)) <= 31

\* The test of add_task on a typed priority (line 43).
PriorityAccepted(priority) == priority \in {Priority1, Priority2, Priority3}

\* "typed or current" of edit_task: a blank entry keeps the current value.
OrCurrent(typed, current) == IF typed # <<>> THEN typed ELSE current

\* load_tasks(username) with the tasks directory in place and the file, when
\* there is one, holding JSON.
TasksOf(tf, name) ==
    load_tasks(TRUE, IF name \in DOMAIN tf THEN "readable" ELSE "missing",
               TRUE, Get(tf, name, <<>>)).value

\* save_tasks(username, tasks): the new content of the task files.
save_tasks(tf, name, tasks) == Put(tf, name, tasks)

IsPending(task) == ~task.completed

\* The list shown by list_tasks(username): pending tasks only, numbered from
\* 1 by display_task_list.
ShownPending(tasks) == SelectSeq(tasks, IsPending)

\* The keys of users.json in file order: "A" was registered before "b".
RECURSIVE KeysInOrder(_)
KeysInOrder(names) ==
    IF names = {} THEN <<>>
    ELSE LET first == CHOOSE k \in names : \A j \in names : StrLeq(k, j)
         IN  <<first>> \o KeysInOrder(names \ {first})

\* search_tasks_by_date_range(username, start_date, end_date): the filter is
\* "start_date <= end_date" (line 70), the same for every task.
search_tasks_by_date_range(tf, name, start_date, end_date) ==
    LET tasks == TasksOf(tf, name)
        Kept(task) == StrLeq(start_date, end_date)
    IN  SelectSeq(tasks, Kept)

\* {**task, 'username': username}
WithUser(task, name) ==
    [title |-> task.title, description |-> task.description,
     priority |-> task.priority, deadline |-> task.deadline,
     category |-> task.category, completed |-> task.completed,
     username |-> name]

\* The loop of search_tasks_by_date_range_admin over the first n users.
RECURSIVE AdminRangeLoop(_, _, _, _, _)
AdminRangeLoop(tf, names, n, start_date, end_date) ==
    IF n = 0 THEN <<>>
    ELSE LET tasks == TasksOf(tf, names[n])
             InRange(task) == StrLeq(start_date, task.deadline)
                                  /\ StrLeq(task.deadline, end_date)
             filtered_tasks == SelectSeq(tasks, InRange)
         IN  AdminRangeLoop(tf, names, n - 1, start_date, end_date)
                 \o [i \in 1..Len(filtered_tasks) |->
                        WithUser(filtered_tasks[i], names[n])]

\* search_tasks_by_date_range_admin(start_date, end_date)
search_tasks_by_date_range_admin(us, tf, start_date, end_date) ==
    LET names == KeysInOrder(DOMAIN us)
    IN  AdminRangeLoop(tf, names, Len(names), start_date, end_date)

\* What may be typed for a priority, a deadline, a task number and a date of
\* a search.
TypedPriorities == {<<Space>> \o Priority1, Priority9, <<>>}
TypedDeadlines == {Date1, Date3 \o <<Space>>, Soon, <<>>}
TypedNumbers == 0..(MaxTasks + 1)
SearchRanges == {<<Date1, Date2>>, <<Date2, Date3>>, <<Date3, Date1>>}

\* A task with the given priority, deadline and state.
Task(priority, deadline, completed) ==
    [title |-> TitleT, description |-> <<>>, priority |-> priority,
     deadline |-> deadline, category |-> CategoryC, completed |-> completed]

\* The task file of "b" when the session of "A" starts.
OtherTasks == <<Task(Priority3, Date2, FALSE), Task(Priority1, Date3, TRUE)>>

\* The session of user "A" is open; "A" has no task file yet, "b" has one.
InitTasks ==
    /\ users = Put(Put(EmptyDict, NameA, [admin |-> FALSE]),
                   NameB, [admin |-> FALSE])
    /\ users_file = users
    /\ users_env = <<>>
    /\ tasks_file = Put(EmptyDict, NameB, OtherTasks)
    /\ pc = "task_menu"
    /\ username = NameA
    /\ lib = NoLib
    /\ wrong_checks = EmptyDict
    /\ reg = NoReg
    /\ attempts = EmptyDict
    /\ security_log = EmptyDict
    /\ clock = 0
    /\ now = 0
    /\ user_attempt = FreshAttempt
    /\ aliased = FALSE
    /\ result = FALSE
    /\ call = NoCall

\* What a task operation leaves alone.
TaskFrame ==
    <<users, users_file, users_env, attempts, security_log, clock, pc, Locals,
      result, call, wrong_checks, reg>>

\* add_task(username): each prompt is repeated until the entry passes its
\* test; the task is appended to the loaded list and the list saved.
AddTask(typed_priority, typed_deadline) ==
    LET priority == Strip(typed_priority)
        deadline == Strip(typed_deadline)
        tasks == TasksOf(tasks_file, username)
    IN  /\ pc = "task_menu"
        /\ Len(tasks) < MaxTasks
        /\ PriorityAccepted(priority)
        /\ DeadlineAccepted(deadline)
        /\ tasks_file' = save_tasks(tasks_file, username,
                                    Append(tasks, Task(priority, deadline, FALSE)))
        /\ lib' = [op |-> "add_task"]
        /\ UNCHANGED TaskFrame

\* edit_task(username): with a number of the list, every field becomes the
\* stripped entry, or stays when the entry is blank, and the list is saved;
\* an empty list or another number changes nothing.
EditTask(number, typed_priority, typed_deadline) ==
    LET tasks == TasksOf(tasks_file, username)
        idx == number - 1
    IN  /\ pc = "task_menu"
        /\ IF tasks # <<>> /\ 0 <= idx /\ idx < Len(tasks)
           THEN LET current == tasks[idx + 1]
                    edited == [current EXCEPT
                        !.priority = OrCurrent(Strip(typed_priority), @),
                        !.deadline = OrCurrent(Strip(typed_deadline), @)]
                IN  tasks_file' = save_tasks(tasks_file, username,
                                      [tasks EXCEPT ![idx + 1] = edited])
           ELSE UNCHANGED tasks_file
        /\ lib' = [op |-> "edit_task"]
        /\ UNCHANGED TaskFrame

\* remove_task(username): with a number of the list the task is popped and
\* the list saved.
RemoveTask(number) ==
    LET tasks == TasksOf(tasks_file, username)
        idx == number - 1
    IN  /\ pc = "task_menu"
        /\ IF tasks # <<>> /\ 0 <= idx /\ idx < Len(tasks)
           THEN tasks_file' = save_tasks(tasks_file, username,
                                  [i \in 1..(Len(tasks) - 1) |->
                                      IF i <= idx THEN tasks[i] ELSE tasks[i + 1]])
           ELSE UNCHANGED tasks_file
        /\ lib' = [op |-> "remove_task"]
        /\ UNCHANGED TaskFrame

\* mark_task_done(username): the pending tasks are shown, numbered from 1;
\* the number entered is used as an index of the whole loaded list (line
\* 209).  A task not yet completed is marked and the list saved; a number
\* out of range, or of a completed task, changes nothing (the prompt comes
\* again until the user quits).
MarkTaskDone(number) ==
    LET tasks == TasksOf(tasks_file, username)
        shown == ShownPending(tasks)
        idx == number - 1
    IN  /\ pc = "task_menu"
        /\ tasks # <<>>
        /\ IF 0 <= idx /\ idx < Len(tasks) /\ ~tasks[idx + 1].completed
           THEN tasks_file' = save_tasks(tasks_file, username,
                                  [tasks EXCEPT ![idx + 1].completed = TRUE])
           ELSE UNCHANGED tasks_file
        /\ lib' = [op |-> "mark_task_done", number |-> number,
                   shown |-> shown, pre |-> tasks]
        /\ UNCHANGED TaskFrame

\* A date range search of the session user.
SearchByDateRange(start_date, end_date) ==
    /\ pc = "task_menu"
    /\ lib' = [op |-> "search_tasks_by_date_range",
               start_date |-> start_date, end_date |-> end_date,
               value |-> search_tasks_by_date_range(tasks_file, username,
                                                    start_date, end_date)]
    /\ UNCHANGED <<tasks_file, TaskFrame>>

\* A date range search across all users.
SearchByDateRangeAdmin(start_date, end_date) ==
    /\ pc = "task_menu"
    /\ lib' = [op |-> "search_tasks_by_date_range_admin",
               start_date |-> start_date, end_date |-> end_date,
               value |-> search_tasks_by_date_range_admin(
                             users_file, tasks_file, start_date, end_date)]
    /\ UNCHANGED <<tasks_file, TaskFrame>>

NextTasks ==
    \/ \E p \in TypedPriorities, d \in TypedDeadlines : AddTask(p, d)
    \/ \E n \in TypedNumbers, p \in TypedPriorities, d \in TypedDeadlines :
           EditTask(n, p, d)
    \/ \E n \in TypedNumbers : RemoveTask(n)
    \/ \E n \in TypedNumbers : MarkTaskDone(n)
    \/ \E range \in SearchRanges : SearchByDateRange(range[1], range[2])
    \/ \E range \in SearchRanges : SearchByDateRangeAdmin(range[1], range[2])

SpecTasks == InitTasks /\ [][NextTasks]_vars


\* ================================================================== claims
\* {"attempts": 0, "blocked_until": null}, written out.
ZeroRecord == [attempts |-> 0, blocked_until |-> <<>>]

\* p is the password the stored credential of user u was made from.
IsPasswordOf(u, p) ==
    \E i \in 1..Len(users_env) :
        \E credential \in {Sha256Hex(p), Salt \o <<Colon>> \o Pbkdf2Hex(p, Salt)} :
            users_env[i] = Lower(u) \o PasswordSuffix \o <<Equals>> \o credential

\* The last call changed neither the attempts mapping nor security.log.
CallChangedNothing ==
    attempts = call.pre_attempts /\ security_log = call.pre_log

\* C1: a login call for a user whose attempt record holds a lockout still in
\* force (clock < blocked_until), whatever case variant of the name is typed,
\* returns failure at once and verifies no password.
C1_BlockedLoginRejected ==
    call.blocked =>
        /\ call.exit = "blocked"
        /\ pc = "main_menu"
        /\ result = FALSE
        /\ call.checked = 0

\* C1 witness: the user locked out by a fifth failure logs in again under
\* another case of the name, owns a credential, and is turned away.
C1_Witness ==
    /\ call.exit = "blocked"
    /\ call.user = NameA /\ call.typed = NameALower
    /\ attempts[NameA].attempts = MAX_ATTEMPTS
    /\ IsPasswordOf(NameA, PasswordX)

\* C2: between two resets (successful login, expired lockout) at most
\* MAX_ATTEMPTS wrong passwords are checked against a user's credential.
C2_BruteForceBound ==
    \A u \in DOMAIN wrong_checks :
        get_user_password_hash(users_env, u) # None
            => wrong_checks[u] <= MAX_ATTEMPTS

\* C3: the incremented record is in security.log before the user is asked
\* whether to retry, and every failing exit after k wrong passwords leaves
\* the persisted attempts at the starting value plus k.
C3_FailurePersistedBeforeRetry ==
    /\ pc = "retry" =>
          /\ username \in DOMAIN security_log
          /\ security_log[username] = user_attempt
    /\ (call.exit \in {"cancel", "declined", "lockout"} /\ call.wrong > 0) =>
          /\ call.user \in DOMAIN security_log
          /\ security_log[call.user].attempts = call.base + call.wrong

\* C4: the lockout stamp is 30 minutes after the minute at which the fifth
\* failure was recorded.
C4_LockoutFromFifthFailure ==
    call.exit = "lockout" =>
        security_log[call.user].blocked_until
            = <<call.fail_clock + BLOCK_MINUTES>>

\* C5: for a user without attempt record, after the k-th wrong password
\* (k = 1..4) the stored record shows attempts = k and no lockout, and the
\* fifth wrong password stamps the record and ends the call with failure.
C5_StoredCountFollowsFailures ==
    call.fresh =>
        /\ (call.wrong \in 1..(MAX_ATTEMPTS - 1) /\ call.exit # "session"
                                               /\ call.exit # "success") =>
              /\ call.user \in DOMAIN security_log
              /\ security_log[call.user]
                    = [attempts |-> call.wrong, blocked_until |-> <<>>]
        /\ call.wrong = MAX_ATTEMPTS =>
              /\ call.exit = "lockout" /\ result = FALSE
              /\ security_log[call.user].attempts = MAX_ATTEMPTS
              /\ security_log[call.user].blocked_until # <<>>

\* An attempt record within range: a lockout stamp exactly at MAX_ATTEMPTS.
WellFormedRecord(rec) ==
    /\ rec.attempts \in 0..MAX_ATTEMPTS
    /\ (rec.blocked_until # <<>>) <=> (rec.attempts = MAX_ATTEMPTS)

\* C6: starting from an empty attempt log, every attempt record, in memory
\* and persisted, has 0 <= attempts <= 5 and a lockout stamp exactly when
\* attempts = 5.
C6_RecordsWellFormed ==
    /\ \A u \in DOMAIN attempts : WellFormedRecord(attempts[u])
    /\ \A u \in DOMAIN security_log : WellFormedRecord(security_log[u])
    /\ WellFormedRecord(user_attempt)

\* C6 witness: a stamped record at the maximum sits in memory and on disk
\* while the same user, the lockout expired, fails again from a fresh count.
C6_Witness ==
    /\ pc = "retry"
    /\ username \in DOMAIN security_log
    /\ security_log[username].attempts = MAX_ATTEMPTS
    /\ attempts[username].blocked_until # <<>>
    /\ user_attempt.attempts = 1

\* C7: a login call rejected because the user is still blocked leaves the
\* attempts mapping and security.log as they were when it was called.
C7_BlockedLoginChangesNothing ==
    (call.blocked /\ pc = "main_menu") => CallChangedNothing

\* C7 witness: a blocked call has returned, with the stamped record on disk.
C7_Witness ==
    /\ call.exit = "blocked" /\ pc = "main_menu"
    /\ call.user \in DOMAIN security_log
    /\ security_log[call.user].blocked_until # <<>>
    /\ clock < security_log[call.user].blocked_until[1]

\* C8: when a user who is not blocked supplies the password of the stored
\* credential, the record is reset to {0, null} in memory and in
\* security.log before the session menu opens, and login returns success.
C8_SuccessResetsAndPersists ==
    (call.checked > 0 /\ IsPasswordOf(call.user, call.password)) =>
        /\ call.exit \in {"session", "success"}
        /\ call.user \in DOMAIN attempts /\ attempts[call.user] = ZeroRecord
        /\ call.user \in DOMAIN security_log
        /\ security_log[call.user] = ZeroRecord
        /\ call.exit = "session" <=> pc \in {"admin_main_menu", "task_menu"}
        /\ call.exit = "success" => (pc = "main_menu" /\ result = TRUE)

\* C8 witness: the session menu is open after a correct password that
\* followed four failures of earlier calls.
C8_Witness ==
    /\ pc \in {"admin_main_menu", "task_menu"}
    /\ call.base = MAX_ATTEMPTS - 1
    /\ call.pre_log[call.user].attempts = MAX_ATTEMPTS - 1
    /\ IsPasswordOf(call.user, call.password)

\* C9: once the clock has reached blocked_until, a login call of the locked
\* user is not turned away, the correct password succeeds, and security.log
\* then holds {0, null} for that user.
C9_ExpiredLockoutLetsIn ==
    call.expired =>
        /\ call.exit # "blocked"
        /\ (call.checked > 0 /\ IsPasswordOf(call.user, call.password)) =>
              /\ call.exit \in {"session", "success"}
              /\ security_log[call.user] = ZeroRecord
              /\ call.exit = "success" => result = TRUE

\* C9 witness: login was called at the very minute the lockout ended and has
\* returned success.
C9_Witness ==
    /\ call.expired /\ call.exit = "success"
    /\ call.pre_log[call.user].blocked_until = <<now>>
    /\ security_log[call.user] = ZeroRecord

\* C10: a login call with a name that matches no key of users
\* case-insensitively returns failure, reads no password, and leaves the
\* attempts mapping and security.log unchanged, with no record for the name.
C10_UnknownNameTouchesNothing ==
    (call.exit # "nocall"
        /\ ~(\E k \in DOMAIN users : Lower(k) = Lower(call.typed))) =>
        /\ pc = "main_menu" /\ result = FALSE
        /\ call.checked = 0
        /\ CallChangedNothing
        /\ call.typed \notin DOMAIN attempts
        /\ call.typed \notin DOMAIN security_log

\* C10 witness: an unknown, non-empty name was typed while another account
\* exists and has a record on disk.
C10_Witness ==
    /\ call.exit = "unknown" /\ call.typed = NameC
    /\ DOMAIN users # {} /\ DOMAIN security_log # {}

\* C11: the step that cancels password entry during login returns failure
\* and changes neither the attempts mapping, nor the record in hand, nor
\* security.log, nor users.json, nor users.env.
C11_CancelMutatesNothing ==
    [][(pc = "password" /\ call'.exit = "cancel") =>
          /\ pc' = "main_menu" /\ result' = FALSE
          /\ attempts' = attempts /\ user_attempt' = user_attempt
          /\ security_log' = security_log
          /\ users' = users /\ users_file' = users_file
          /\ users_env' = users_env]_vars

\* C11 witness: login was cancelled after wrong passwords that had been
\* counted in memory on a record that security.log holds with a lower count.
C11_Witness ==
    /\ call.exit = "cancel" /\ pc = "main_menu" /\ result = FALSE
    /\ call.wrong = 2
    /\ call.user \in DOMAIN attempts /\ call.user \in DOMAIN security_log
    /\ attempts[call.user].attempts = security_log[call.user].attempts + 2

\* The registered key the name typed in the last login call stands for.
RegisteredKey == CHOOSE k \in DOMAIN users : Lower(k) = Lower(call.typed)

\* C12: a name typed in any case resolves to the registered key: the call is
\* not turned away as unknown, works on the attempt record stored under the
\* registered key (continuing its count), is checked against the credential
\* line of the lowercased name, and no record is ever kept under another key.
C12_CaseVariantsShareOneRecord ==
    /\ DOMAIN attempts \subseteq DOMAIN users
    /\ DOMAIN security_log \subseteq DOMAIN users
    /\ (call.exit # "nocall"
          /\ \E k \in DOMAIN users : Lower(k) = Lower(call.typed)) =>
          LET k == RegisteredKey
              start == IF call.expired THEN 0
                       ELSE Get(call.pre_attempts, k, ZeroRecord).attempts
          IN  /\ call.exit # "unknown"
              /\ call.user = k
              /\ pc \in {"password", "retry"} =>
                    (username = k /\ user_attempt.attempts = start + call.wrong)
              /\ call.exit \in {"declined", "lockout"} =>
                    /\ attempts[k].attempts = start + call.wrong
                    /\ security_log[k].attempts = start + call.wrong
              /\ call.checked > 0 =>
                    (call.exit \in {"session", "success"}
                        <=> IsPasswordOf(k, call.password))

\* C12 witness: a failure typed as "a" is added to the two failures already
\* stored under the registered "A".
C12_Witness ==
    /\ call.typed = NameALower /\ call.user = NameA
    /\ call.exit = "declined" /\ call.wrong = 1
    /\ DOMAIN call.pre_log = {NameA} /\ DOMAIN security_log = {NameA}
    /\ call.pre_log[NameA].attempts = 2
    /\ security_log[NameA].attempts = 3

\* C13: after any sequence of register calls no two keys of users are equal
\* when lowercased and no key is empty, in memory and in users.json.
C13_UsernamesUniqueAndNonEmpty ==
    \A us \in {users, users_file} :
        /\ \A k1, k2 \in DOMAIN us : Lower(k1) = Lower(k2) => k1 = k2
        /\ <<>> \notin DOMAIN us

\* C13 witness: with "A" registered, "a" was typed at the username prompt,
\* refused, and the call completed under another name.
C13_Witness ==
    /\ NameA \in DOMAIN reg.pre_users
    /\ reg.refused /\ reg.refused_name = NameALower
    /\ reg.exit = "done"
    /\ Cardinality(DOMAIN users) = 2

\* C14: a register call whose password is empty after strip() creates no
\* user and stores no credential.
C14_EmptyPasswordRefused ==
    (reg.exit = "done" /\ reg.password = <<>>) =>
        /\ users = reg.pre_users /\ users_file = reg.pre_file
        /\ users_env = reg.pre_env

\* C15: a register call whose password entry is cancelled returns failure
\* and leaves users, users.json and users.env as they were, whatever the
\* admin argument.
C15_RegisterCancelChangesNothing ==
    reg.exit = "cancel" =>
        /\ pc = "main_menu" /\ result = FALSE
        /\ users = reg.pre_users /\ users_file = reg.pre_file
        /\ users_env = reg.pre_env

\* C15 witness: register(admin=True) was cancelled at the password prompt
\* after an account had been created.
C15_Witness ==
    /\ reg.exit = "cancel" /\ reg.admin
    /\ reg.name = NameB
    /\ DOMAIN users = {NameA}

\* The passwords login may check (after strip()).
CandidatePasswords == {Strip(raw) : raw \in TypedPasswords}

\* C16: when register has completed for name u, password p and flag a,
\* users.json maps u to {admin: a}, users.env yields for u a value with
\* exactly one ':', and that value verifies p and no other password.
C16_RegisteredUserCanLogIn ==
    reg.exit = "done" =>
        LET stored == get_user_password_hash(users_env, reg.name)
        IN  /\ reg.name \in DOMAIN users_file
            /\ users_file[reg.name] = [admin |-> reg.admin]
            /\ stored # <<>>
            /\ Cardinality({i \in 1..Len(stored) : stored[i] = Colon}) = 1
            /\ \A q \in CandidatePasswords :
                  PasswordOk(users_env, reg.name, q) <=> (q = reg.password)

\* C17: verify_password never raises and returns a Boolean; for a stored
\* value without ':' the result is true exactly when the value is the
\* unsalted digest of the password; for a stored value with ':' it is true
\* exactly when the part after the first ':' is the salted digest of the
\* password under the part before it; for an empty or absent stored value
\* the result is false.
C17_VerifySelectsFormatByColon ==
    lib.op = "verify_password" =>
        LET p == lib.input.password
            s == lib.input.stored
            colons == {i \in 1..Len(s) : s[i] = Colon}
        IN  /\ lib.raised = NoException
            /\ lib.value \in BOOLEAN
            /\ (lib.input.stored_is_none \/ s = <<>>) => lib.value = FALSE
            /\ (~lib.input.stored_is_none /\ colons = {}) =>
                   (lib.value <=> s = Sha256Hex(p))
            /\ (~lib.input.stored_is_none /\ colons # {}) =>
                   (lib.value <=>
                       \E k \in colons :
                           /\ \A j \in colons : k <= j
                           /\ SubSeq(s, k + 1, Len(s))
                                  = Pbkdf2Hex(p, SubSeq(s, 1, k - 1)))

\* A salted stored value with a second ':' was checked against the password
\* its last part was derived from, and refused.
C17_Witness ==
    /\ lib.op = "verify_password"
    /\ lib.input.password = PasswordX
    /\ Cardinality({i \in 1..Len(lib.input.stored) :
                       lib.input.stored[i] = Colon}) = 2
    /\ lib.input.stored[Len(lib.input.stored)] # Colon
    /\ lib.raised = NoException
    /\ lib.value = FALSE

\* str.upper() on one character, and on a string.
UpperChar(c) == IF c >= 97 /\ c <= 122 THEN c - 32 ELSE c
Upper(s) == [i \in 1..Len(s) |-> UpperChar(s[i])]

\* C18: after save_user_password(u, v), get_user_password_hash returns v for
\* u and for its case variants, for every name register accepts.
C18_CredentialRoundTrip ==
    reg.exit = "done" =>
        \A variant \in {reg.name, Lower(reg.name), Upper(reg.name)} :
            get_user_password_hash(users_env, variant) = reg.value

\* The key a line of users.env sets (<<>> for a line that sets none).
KeyOfLine(line) ==
    LET loaded == LoadEnvLine(<<>>, line)
    IN  IF loaded = <<>> THEN <<>> ELSE loaded[1][1]

\* C19: save_user_password(u, v) leaves every key of users.env other than
\* "<lowercase u>_password" with the value it had, and writes the
\* ADMIN_PASSWORD line before every user entry.
C19_SaveChangesOnlyOwnEntry ==
    reg.exit = "done" =>
        LET before == load_users_env(reg.pre_env)
            after == load_users_env(users_env)
            own == Lower(reg.name) \o PasswordSuffix
            keys == {before[i][1] : i \in 1..Len(before)}
                        \cup {after[i][1] : i \in 1..Len(after)}
        IN  /\ \A k \in keys \ {own} :
                  EnvGet(after, k, <<>>) = EnvGet(before, k, <<>>)
            /\ \A i, j \in 1..Len(users_env) :
                  (KeyOfLine(users_env[i]) = AdminKey
                      /\ KeyOfLine(users_env[j]) \notin {<<>>, AdminKey})
                  => i < j

\* C20: every load operation returns, never raising to its caller, and
\* returns its empty default (empty mapping, empty list, or None) when the
\* file it reads is missing, cannot be opened, cannot be decoded, or does
\* not hold JSON.
LoadOps ==
    {"load_users", "load_attempts", "load_tasks", "load_users_env",
     "get_user_password_hash", "get_admin_password_hash"}

JsonOps == {"load_users", "load_attempts", "load_tasks"}

C20_LoadsAreTotal ==
    lib.op \in LoadOps =>
        /\ lib.raised = NoException
        /\ (\/ lib.input.status # "readable"
            \/ (lib.op \in JsonOps /\ ~lib.input.json_ok))
               => lib.value = <<>>

\* C21: whenever register runs, or has run, with admin = True, the
\* passphrase typed at the menu that called it has as SHA-256 digest the
\* ADMIN_PASSWORD value stored in users.env at that time, and such a value
\* was stored.
C21_AdminOnlyThroughGate ==
    (reg.admin /\ reg.exit \in {"none", "cancel", "done"}) =>
        LET stored_admin_hash == get_admin_password_hash(reg.pre_env)
        IN  /\ stored_admin_hash # None
            /\ Sha256Hex(reg.admin_pass) = stored_admin_hash

\* C22: a session menu opens only from the password prompt, on a password
\* that verifies against the credential of the resolved user; it is the
\* admin menu exactly when the admin flag stored for that user is true, and
\* otherwise the task menu of the user's name as registered (the key of
\* users that matches the typed name case-insensitively).  A call that ends
\* any other way opens no session menu.
SessionMenus == {"admin_main_menu", "task_menu"}

C22_SessionFollowsRoleFlag ==
    [][/\ (pc' \in SessionMenus /\ pc \notin SessionMenus) =>
              /\ pc = "password"
              /\ call'.exit = "session"
              /\ PasswordOk(users_env, username, call'.password)
              /\ username' = username
              /\ username \in DOMAIN users_file
              /\ Lower(username) = Lower(call'.typed)
              /\ pc' = "admin_main_menu" <=> users_file[username].admin
       /\ (call'.exit \notin {"session", "success"}) => pc' \notin SessionMenus
       /\ (call'.exit = "success" /\ call.exit # "success") =>
              pc \in SessionMenus]_vars

\* C22 witness: the admin menu is open for the administrator "b", who typed
\* the name as "B".
C22_Witness ==
    /\ pc = "admin_main_menu"
    /\ call.exit = "session"
    /\ call.typed = NameBUpper
    /\ username = NameB
    /\ users_file[NameB].admin

\* C23: when a login call that found an expired lockout has returned failure
\* after exactly one wrong password, security.log holds attempts = 1 and
\* blocked_until null for the user.
C23_ExpiredLockoutRestartsCount ==
    (call.expired /\ call.wrong = 1 /\ call.exit \in {"declined", "cancel"}) =>
        /\ call.user \in DOMAIN security_log
        /\ security_log[call.user] = [attempts |-> 1, blocked_until |-> None]

\* C24: whenever control is at the main menu, the lines of users.env that set
\* a key other than ADMIN_PASSWORD are, one for one, the keys
\* "<lowercase name>_password" of the users registered in users.json.
UserKeyLines(k) ==
    {i \in 1..Len(users_env) : KeyOfLine(users_env[i]) = k}

C24_OneEntryPerRegisteredUser ==
    pc = "main_menu" =>
        LET set_keys == {KeyOfLine(users_env[i]) : i \in 1..Len(users_env)}
                            \ {<<>>, AdminKey}
            user_keys == {Lower(u) \o PasswordSuffix : u \in DOMAIN users_file}
        IN  /\ set_keys = user_keys
            /\ \A k \in user_keys : Cardinality(UserKeyLines(k)) = 1

\* C25: every task in the task file of the session user has priority "1",
\* "2" or "3", a deadline made of four digits, '-', two digits, '-', two
\* digits, and a Boolean completed field.
IsDateForm(d) ==
    /\ Len(d) = 10
    /\ \A i \in 1..Len(d) :
          IF i \in {5, 8} THEN d[i] = Dash ELSE d[i] >= 48 /\ d[i] <= 57

C25_WrittenTasksWellFormed ==
    \A name \in DOMAIN tasks_file :
        \A i \in 1..Len(tasks_file[name]) :
            /\ tasks_file[name][i].priority \in {Priority1, Priority2, Priority3}
            /\ IsDateForm(tasks_file[name][i].deadline)
            /\ tasks_file[name][i].completed \in BOOLEAN

\* C26: search_tasks_by_date_range returns, in stored order, exactly the
\* tasks of the user whose deadline lies between start_date and end_date,
\* both included; search_tasks_by_date_range_admin returns those of all
\* users.
DeadlineWithin(task, start_date, end_date) ==
    StrLeq(start_date, task.deadline) /\ StrLeq(task.deadline, end_date)

C26_DateRangeSearchFiltersByDeadline ==
    /\ lib.op = "search_tasks_by_date_range" =>
          LET tasks == Get(tasks_file, username, <<>>)
              wanted == {i \in 1..Len(tasks) :
                            DeadlineWithin(tasks[i], lib.start_date, lib.end_date)}
          IN  /\ Len(lib.value) = Cardinality(wanted)
              /\ \A i \in wanted :
                    lib.value[Cardinality({j \in wanted : j <= i})] = tasks[i]
    /\ lib.op = "search_tasks_by_date_range_admin" =>
          /\ \A k \in 1..Len(lib.value) :
                DeadlineWithin(lib.value[k], lib.start_date, lib.end_date)
          /\ \A name \in DOMAIN tasks_file :
                Cardinality({k \in 1..Len(lib.value) :
                                lib.value[k].username = name})
                    = Cardinality({i \in 1..Len(tasks_file[name]) :
                          DeadlineWithin(tasks_file[name][i],
                                         lib.start_date, lib.end_date)})

\* C28: when the number entered in mark_task_done is a number of the list
\* shown (the pending tasks, numbered from 1), the task file afterwards is
\* the list loaded with completed set on the task shown under that number,
\* and nothing else changed.
C28_MarksTheTaskDisplayed ==
    (lib.op = "mark_task_done" /\ lib.number \in 1..Len(lib.shown)) =>
        LET pending == {i \in 1..Len(lib.pre) : ~lib.pre[i].completed}
            target == CHOOSE i \in pending :
                          Cardinality({j \in pending : j <= i}) = lib.number
        IN  tasks_file[username] = [lib.pre EXCEPT ![target].completed = TRUE]

\* C27: when a login call for one user has returned, every other user has
\* in security.log, and in the attempts mapping, the record (or the absence
\* of a record) that was there when the call began.
SameRecord(before, after, v) ==
    /\ v \in DOMAIN after <=> v \in DOMAIN before
    /\ v \in DOMAIN before => after[v] = before[v]

C27_OtherUsersRecordsUntouched ==
    (call.exit \in {"blocked", "cancel", "declined", "lockout", "success"}) =>
        \A v \in DOMAIN users \ {call.user} :
            /\ SameRecord(call.pre_log, security_log, v)
            /\ SameRecord(call.pre_attempts, attempts, v)

\* C29: a login call never shows more than MAX_ATTEMPTS password prompts,
\* and, when the user answers every prompt and leaves the session menu, a
\* call that is under way returns to the main menu with a Boolean result.
Prompts ==
    call.checked + (IF pc = "password" \/ call.exit = "cancel" THEN 1 ELSE 0)

C29_LoginTerminatesWithinFivePrompts ==
    /\ [](call.exit # "nocall" => Prompts <= MAX_ATTEMPTS)
    /\ (pc \in {"password", "retry", "admin_main_menu", "task_menu"})
           ~> (pc = "main_menu" /\ result \in BOOLEAN
                  /\ call.exit \in {"cancel", "declined", "lockout", "success"})

\* C29 witness: a call has returned on the lockout after five prompts, each
\* answered with a wrong password.
C29_Witness ==
    /\ pc = "main_menu"
    /\ call.exit = "lockout"
    /\ call.checked = MAX_ATTEMPTS /\ call.wrong = MAX_ATTEMPTS
    /\ result = FALSE

\* C30: whenever control is at the main menu, the attempts mapping held in
\* memory equals the content of security.log.
C30_MemoryEqualsAttemptLog ==
    pc = "main_menu" => attempts = security_log

====
